---- MODULE Spec2Model ----
(***************************************************************************)
(* A model of src/src/logger.py: the Logger facade with its console        *)
(* handler and its optional daily-rotating FileHandler, and the            *)
(* RelativePathFilter both handlers carry.                                 *)
(*                                                                         *)
(* A log call is modelled step by step (one action per source line of      *)
(* FileHandler.emit) so that the order of the steps, the handler lock and  *)
(* a clock that changes in the middle of a call are all visible.           *)
(*                                                                         *)
(*   Spec        one Logger and one thread, I/O never fails                *)
(*   SpecMT      one Logger with file logging shared by two threads        *)
(*   SpecIO      as Spec, where open() and write() may fail                *)
(*   SpecTwo     two Loggers (two FileHandler instances), one thread       *)
(*   SpecRedact  RelativePathFilter.filter on a record that passes through *)
(*               the console handler's filter and the file handler's       *)
(***************************************************************************)
EXTENDS Integers, Sequences, FiniteSets

(* ------------------------------ bounds -------------------------------- *)

\* calendar days are 1..MaxDay
MaxDay == 2
\* how many times the clock changes its date
MaxClockChanges == 2
\* how many log calls are issued altogether
MaxCalls == 2
\* longest pathname and longest working directory given to the filter
MaxPathLen == 4
MaxRootLen == 2

Days == 1..MaxDay
Loggers == {1, 2}
Threads == {1, 2}

\* the name each logger is constructed with: the loggers have different names
Name(l) == IF l = 1 THEN "a" ELSE "b"

(* --------------------------- logging levels --------------------------- *)

DEBUG == 10
INFO == 20
WARNING == 30

\* the levels a Logger is constructed with, and the severities logged at
LoggerLevels == {DEBUG, WARNING}
Severities == {INFO, WARNING}

VARIABLES
    today,          \* the date datetime.datetime.today() returns
    dateSeq,        \* the dates today has had since the import (history)
    cls_last_entry, \* FileHandler._last_entry, the class attribute
    built,          \* built[l]: Logger l has been constructed
    level,          \* level[l]: Logger.level
    file_logging,   \* file_logging[l]: l._file_handler is not None
    ext,            \* ext[l]: FileHandler.ext (the logger's name)
    builtAt,        \* builtAt[l]: index in dateSeq of l's construction (history)
    obs,            \* obs[l]: today() as l's handler last read it at its
                    \*   construction or at line 73 (history)
    last_entry,     \* last_entry[l]: the instance attribute, 0 while unset
    baseFilename,   \* baseFilename[l]: <<day, ext>> of the handler's file
    stream,         \* stream[l]: index into handles, 0 for None
    lock,           \* lock[l]: the thread holding the file handler's lock, 0
    handles,        \* every file object ever opened: [owner, path, open]
    exists,         \* the paths of the files in the folder
    content,        \* content[p]: the lines of file p (record ids)
    console,        \* console[l]: the lines l's console handler wrote
    wlog,           \* wlog[l]: what l's file handler wrote (history)
    rotations,      \* rotations[l]: how often l's file handler rotated
    issued,         \* every log call made: [lg, sev]; a record's id is its index
    pc,             \* pc[t]: where thread t is in its log call
    cur,            \* cur[t]: the logger t is calling
    rid,            \* rid[t]: the record of t's call
    chk,            \* chk[t]: today() as read at line 73
    old,            \* old[t]: the recorded date as read at line 73 (history)
    rot,            \* rot[t]: line 73 found the dates different
    seen,           \* seen[t]: the dates current since t's line 73 (history)
    prev,           \* prev[t]: the stream t's rotation closes (history)
    ref,            \* ref[t]: the stream StreamHandler.emit writes to
    wfail,          \* wfail[t]: the write of t's call failed
    result,         \* result[t]: how t's last log call ended
    closedWrite,    \* some thread wrote to a closed file object
    cwd,            \* os.getcwd()
    pathname,       \* record.pathname
    passes,         \* how many filters the record went through
    once            \* record.pathname after the first filter (history)

logVars == <<today, dateSeq, cls_last_entry, built, level, file_logging, ext,
             builtAt, obs, last_entry, baseFilename, stream, lock, handles,
             exists, content, console, wlog, rotations, issued, pc, cur, rid,
             chk, old, rot, seen, prev, ref, wfail, result, closedWrite>>
redactVars == <<cwd, pathname, passes, once>>
vars == <<logVars, redactVars>>

Paths == Days \X {Name(l) : l \in Loggers}
NoPath == <<0, "">>

(* ------------------------ RelativePathFilter -------------------------- *)

Chars == {"/", "~", "a"}

RECURSIVE StrsOfLen(_)
StrsOfLen(n) ==
    IF n = 0 THEN {<<>>}
    ELSE {Append(s, c) : s \in StrsOfLen(n - 1), c \in Chars}

RECURSIVE StrsUpTo(_)
StrsUpTo(n) == IF n = 0 THEN {<<>>} ELSE StrsOfLen(n) \cup StrsUpTo(n - 1)

\* os.getcwd() is an absolute path: it starts with "/"
Roots == {<<"/">> \o s : s \in StrsUpTo(MaxRootLen)}

StartsWith(s, i, sub) ==
    /\ i + Len(sub) - 1 <= Len(s)
    /\ \A k \in 1..Len(sub) : s[i + k - 1] = sub[k]

\* str.replace(sub, new) from position i on: every non-overlapping
\* occurrence of sub, found left to right (sub is not empty)
RECURSIVE ReplaceFrom(_, _, _, _)
ReplaceFrom(s, i, sub, new) ==
    IF i > Len(s) THEN <<>>
    ELSE IF StartsWith(s, i, sub)
         THEN new \o ReplaceFrom(s, i + Len(sub), sub, new)
         ELSE <<s[i]>> \o ReplaceFrom(s, i + 1, sub, new)

Replace(s, sub, new) == ReplaceFrom(s, 1, sub, new)

\* record.pathname.replace(os.getcwd(), "~")
Redact(p, root) == Replace(p, root, <<"~">>)

(* ----------------------------- the sink ------------------------------- *)

\* self._last_entry: the instance attribute once emit has assigned it, the
\* class attribute (the date of the import) until then
LastEntry(l) == IF last_entry[l] = 0 THEN cls_last_entry ELSE last_entry[l]

\* IsEnabledFor with the boundary wrong: a record at the level is dropped
IsEnabledForStrict(l, s) == s > level[l]

\* Logger.isEnabledFor: the severity is at least the logger's level
IsEnabledFor(l, s) == s >= level[l]

\* the file objects of l's handler that are open
OpenHandles(l) ==
    {i \in 1..Len(handles) : handles[i].owner = l /\ handles[i].open}

\* open(path, "a"): a new file object; the file is created when missing and
\* never truncated
OpenAppend(l, p) ==
    /\ handles' = Append(handles, [owner |-> l, path |-> p, open |-> TRUE])
    /\ exists' = exists \cup {p}
    /\ stream' = [stream EXCEPT ![l] = Len(handles) + 1]

\* the steps of a log call that run inside FileHandler.emit after line 73
InEmit == {"setdate", "close", "setname", "open", "emit", "write"}

LogInit ==
    /\ today \in Days
    /\ dateSeq = <<today>>
    /\ cls_last_entry = today
    /\ built = [l \in Loggers |-> FALSE]
    /\ level = [l \in Loggers |-> DEBUG]
    /\ file_logging = [l \in Loggers |-> FALSE]
    /\ ext = [l \in Loggers |-> ""]
    /\ builtAt = [l \in Loggers |-> 0]
    /\ obs = [l \in Loggers |-> 0]
    /\ last_entry = [l \in Loggers |-> 0]
    /\ baseFilename = [l \in Loggers |-> NoPath]
    /\ stream = [l \in Loggers |-> 0]
    /\ lock = [l \in Loggers |-> 0]
    /\ handles = <<>>
    /\ exists = {}
    /\ content = [p \in Paths |-> <<>>]
    /\ console = [l \in Loggers |-> <<>>]
    /\ wlog = [l \in Loggers |-> <<>>]
    /\ rotations = [l \in Loggers |-> 0]
    /\ issued = <<>>
    /\ pc = [t \in Threads |-> "idle"]
    /\ cur = [t \in Threads |-> 1]
    /\ rid = [t \in Threads |-> 0]
    /\ chk = [t \in Threads |-> 0]
    /\ old = [t \in Threads |-> 0]
    /\ rot = [t \in Threads |-> FALSE]
    /\ seen = [t \in Threads |-> {}]
    /\ prev = [t \in Threads |-> 0]
    /\ ref = [t \in Threads |-> 0]
    /\ wfail = [t \in Threads |-> FALSE]
    /\ result = [t \in Threads |-> "none"]
    /\ closedWrite = FALSE

Init ==
    /\ LogInit
    /\ cwd = <<"/">>
    /\ pathname = <<>>
    /\ passes = 0
    /\ once = <<>>

\* the calendar date changes (forward, or backward when the clock is set)
Tick(d) ==
    /\ d # today
    /\ Len(dateSeq) <= MaxClockChanges
    /\ today' = d
    /\ dateSeq' = Append(dateSeq, d)
    /\ seen' = [t \in Threads |->
                  IF pc[t] \in InEmit THEN seen[t] \cup {d} ELSE seen[t]]
    /\ UNCHANGED <<cls_last_entry, built, level, file_logging, ext,
                   builtAt, obs, last_entry, baseFilename, stream, lock,
                   handles, exists, content, console, wlog, rotations,
                   issued, pc, cur, rid, chk, old, rot, prev, ref, wfail,
                   result, closedWrite, redactVars>>

\* Logger(name=Name(l), level=lv, file_logging=fl); the loggers are
\* constructed in the order of their ids
NewLogger(l, lv, fl) ==
    /\ ~built[l]
    /\ \A k \in Loggers : k < l => built[k]
    /\ built' = [built EXCEPT ![l] = TRUE]
    /\ level' = [level EXCEPT ![l] = lv]
    /\ file_logging' = [file_logging EXCEPT ![l] = fl]
    /\ ext' = [ext EXCEPT ![l] = Name(l)]
    /\ builtAt' = [builtAt EXCEPT ![l] = Len(dateSeq)]
    /\ IF fl
       THEN /\ OpenAppend(l, <<today, Name(l)>>)
            /\ baseFilename' = [baseFilename EXCEPT ![l] = <<today, Name(l)>>]
            /\ obs' = [obs EXCEPT ![l] = today]
       ELSE UNCHANGED <<handles, exists, stream, baseFilename, obs>>
    /\ UNCHANGED <<today, dateSeq, cls_last_entry, last_entry, lock,
                   content, console, wlog, rotations, issued, pc, cur, rid,
                   chk, old, rot, seen, prev, ref, wfail, result,
                   closedWrite, redactVars>>

\* logger.log(s, msg): nothing happens below the logger's level, else the
\* record is made and handed to the handlers
Call(t, l, s) ==
    /\ pc[t] = "idle"
    /\ built[l]
    /\ Len(issued) < MaxCalls
    /\ issued' = Append(issued, [lg |-> l, sev |-> s])
    /\ wfail' = [wfail EXCEPT ![t] = FALSE]
    /\ IF IsEnabledFor(l, s)
       THEN /\ pc' = [pc EXCEPT ![t] = "console"]
            /\ cur' = [cur EXCEPT ![t] = l]
            /\ rid' = [rid EXCEPT ![t] = Len(issued) + 1]
            /\ result' = [result EXCEPT ![t] = "none"]
       ELSE /\ result' = [result EXCEPT ![t] = "returned"]
            /\ UNCHANGED <<pc, cur, rid>>
    /\ UNCHANGED <<today, dateSeq, cls_last_entry, built, level,
                   file_logging, ext, builtAt, obs, last_entry,
                   baseFilename, stream, lock, handles, exists, content,
                   console, wlog, rotations, chk, old, rot, seen, prev,
                   ref, closedWrite, redactVars>>

\* the console handler, added first, writes the line to stderr
Console(t) ==
    /\ pc[t] = "console"
    /\ console' = [console EXCEPT ![cur[t]] = Append(@, rid[t])]
    /\ IF file_logging[cur[t]]
       THEN /\ pc' = [pc EXCEPT ![t] = "acquire"]
            /\ UNCHANGED result
       ELSE /\ pc' = [pc EXCEPT ![t] = "idle"]
            /\ result' = [result EXCEPT ![t] = "returned"]
    /\ UNCHANGED <<today, dateSeq, cls_last_entry, built, level,
                   file_logging, ext, builtAt, obs, last_entry,
                   baseFilename, stream, lock, handles, exists, content,
                   wlog, rotations, issued, cur, rid, chk, old, rot, seen,
                   prev, ref, wfail, closedWrite, redactVars>>

\* LockFree for a handler whose emit does not wait for the lock
LockFreeAlways(l) == TRUE

\* whether the handler's lock lets a thread in
LockFree(l) == lock[l] = 0

\* Handler.handle takes the handler's lock around emit
Acquire(t) ==
    /\ pc[t] = "acquire"
    /\ LockFree(cur[t])
    /\ lock' = [lock EXCEPT ![cur[t]] = t]
    /\ pc' = [pc EXCEPT ![t] = "check"]
    /\ UNCHANGED <<today, dateSeq, cls_last_entry, built, level,
                   file_logging, ext, builtAt, obs, last_entry,
                   baseFilename, stream, handles, exists, content, console,
                   wlog, rotations, issued, cur, rid, chk, old, rot, seen,
                   prev, ref, wfail, result, closedWrite, redactVars>>

\* MustRotate that rotates only when the date has moved forward
MustRotateForward(l) == LastEntry(l) < today

\* line 73: whether the recorded date differs from today's
MustRotate(l) == LastEntry(l) # today

\* line 73
Check(t) ==
    /\ pc[t] = "check"
    /\ chk' = [chk EXCEPT ![t] = today]
    /\ old' = [old EXCEPT ![t] = LastEntry(cur[t])]
    /\ seen' = [seen EXCEPT ![t] = {today}]
    /\ obs' = [obs EXCEPT ![cur[t]] = today]
    /\ rot' = [rot EXCEPT ![t] = MustRotate(cur[t])]
    /\ IF MustRotate(cur[t])
       THEN /\ pc' = [pc EXCEPT ![t] = "setdate"]
            /\ rotations' = [rotations EXCEPT ![cur[t]] = @ + 1]
       ELSE /\ pc' = [pc EXCEPT ![t] = "emit"]
            /\ UNCHANGED rotations
    /\ UNCHANGED <<today, dateSeq, cls_last_entry, built, level,
                   file_logging, ext, builtAt, last_entry, baseFilename,
                   stream, lock, handles, exists, content, console, wlog,
                   issued, cur, rid, prev, ref, wfail, result, closedWrite, redactVars>>

\* SetDate that leaves the recorded date as it is
SetDateSkipped(t) ==
    /\ pc[t] = "setdate"
    /\ prev' = [prev EXCEPT ![t] = stream[cur[t]]]
    /\ pc' = [pc EXCEPT ![t] = "close"]
    /\ UNCHANGED <<today, dateSeq, cls_last_entry, built, level, file_logging,
                   ext, builtAt, obs, last_entry, baseFilename, stream, lock,
                   handles, exists, content, console, wlog, rotations, issued,
                   cur, rid, chk, old, rot, seen, ref, wfail, result,
                   closedWrite, redactVars>>

\* line 74: self._last_entry = datetime.datetime.today()
SetDate(t) ==
    /\ pc[t] = "setdate"
    /\ last_entry' = [last_entry EXCEPT ![cur[t]] = today]
    /\ prev' = [prev EXCEPT ![t] = stream[cur[t]]]
    /\ pc' = [pc EXCEPT ![t] = "close"]
    /\ UNCHANGED <<today, dateSeq, cls_last_entry, built, level,
                   file_logging, ext, builtAt, obs, baseFilename, stream,
                   lock, handles, exists, content, console, wlog,
                   rotations, issued, cur, rid, chk, old, rot, seen, ref,
                   wfail, result, closedWrite, redactVars>>

\* CloseStream that forgets the stream without closing it
CloseStreamLeak(l) ==
    /\ stream' = [stream EXCEPT ![l] = 0]
    /\ UNCHANGED handles

\* FileHandler.close: flush and close the stream, if any, and forget it
CloseStream(l) ==
    /\ handles' = [i \in 1..Len(handles) |->
                     IF i = stream[l]
                     THEN [handles[i] EXCEPT !.open = FALSE]
                     ELSE handles[i]]
    /\ stream' = [stream EXCEPT ![l] = 0]

\* line 75: self.close()
Close(t) ==
    /\ pc[t] = "close"
    /\ CloseStream(cur[t])
    /\ pc' = [pc EXCEPT ![t] = "setname"]
    /\ UNCHANGED <<today, dateSeq, cls_last_entry, built, level,
                   file_logging, ext, builtAt, obs, last_entry,
                   baseFilename, lock, exists, content, console, wlog,
                   rotations, issued, cur, rid, chk, old, rot, seen, prev,
                   ref, wfail, result, closedWrite, redactVars>>

\* the path line 76 computes: the folder's file for the recorded date
RotatedName(l) == <<LastEntry(l), ext[l]>>

\* line 76: self.baseFilename = folder / "<_last_entry date>-<ext>.log"
SetName(t) ==
    /\ pc[t] = "setname"
    /\ baseFilename' = [baseFilename EXCEPT ![cur[t]] = RotatedName(cur[t])]
    /\ pc' = [pc EXCEPT ![t] = "open"]
    /\ UNCHANGED <<today, dateSeq, cls_last_entry, built, level,
                   file_logging, ext, builtAt, obs, last_entry, stream,
                   lock, handles, exists, content, console, wlog,
                   rotations, issued, cur, rid, chk, old, rot, seen, prev,
                   ref, wfail, result, closedWrite, redactVars>>

\* line 77: self.stream = self._open()
Open(t) ==
    /\ pc[t] = "open"
    /\ OpenAppend(cur[t], baseFilename[cur[t]])
    /\ pc' = [pc EXCEPT ![t] = "emit"]
    /\ UNCHANGED <<today, dateSeq, cls_last_entry, built, level,
                   file_logging, ext, builtAt, obs, last_entry,
                   baseFilename, lock, content, console, wlog, rotations,
                   issued, cur, rid, chk, old, rot, seen, prev, ref, wfail,
                   result, closedWrite, redactVars>>

\* line 77 when open() raises: the exception leaves emit and Handler.handle
\* (which releases the lock) and reaches the caller of the log call
OpenFail(t) ==
    /\ pc[t] = "open"
    /\ lock' = [lock EXCEPT ![cur[t]] = 0]
    /\ pc' = [pc EXCEPT ![t] = "idle"]
    /\ result' = [result EXCEPT ![t] = "raised"]
    /\ UNCHANGED <<today, dateSeq, cls_last_entry, built, level,
                   file_logging, ext, builtAt, obs, last_entry,
                   baseFilename, stream, handles, exists, content, console,
                   wlog, rotations, issued, cur, rid, chk, old, rot, seen,
                   prev, ref, wfail, closedWrite, redactVars>>

\* line 78, super().emit(record): logging.FileHandler.emit opens the file
\* named baseFilename when the stream is None, and StreamHandler.emit takes
\* the stream it is going to write to
Emit(t) ==
    /\ pc[t] = "emit"
    /\ IF stream[cur[t]] = 0
       THEN OpenAppend(cur[t], baseFilename[cur[t]])
       ELSE UNCHANGED <<handles, exists, stream>>
    /\ ref' = [ref EXCEPT ![t] = stream'[cur[t]]]
    /\ pc' = [pc EXCEPT ![t] = "write"]
    /\ UNCHANGED <<today, dateSeq, cls_last_entry, built, level,
                   file_logging, ext, builtAt, obs, last_entry,
                   baseFilename, lock, content, console, wlog, rotations,
                   issued, cur, rid, chk, old, rot, seen, prev, wfail,
                   result, closedWrite, redactVars>>

\* line 78, StreamHandler.emit: stream.write(msg + terminator) and flush. A
\* write to a closed file object raises ValueError, which handleError takes
Write(t) ==
    /\ pc[t] = "write"
    /\ LET hd == handles[ref[t]] IN
       IF hd.open
       THEN /\ content' = [content EXCEPT ![hd.path] = Append(@, rid[t])]
            /\ wlog' = [wlog EXCEPT ![cur[t]] =
                          Append(@, [id |-> rid[t], days |-> seen[t],
                                     path |-> hd.path])]
            /\ UNCHANGED closedWrite
       ELSE /\ closedWrite' = TRUE
            /\ UNCHANGED <<content, wlog>>
    /\ pc' = [pc EXCEPT ![t] = "release"]
    /\ UNCHANGED <<today, dateSeq, cls_last_entry, built, level,
                   file_logging, ext, builtAt, obs, last_entry,
                   baseFilename, stream, lock, handles, exists, console,
                   rotations, issued, cur, rid, chk, old, rot, seen, prev,
                   ref, wfail, result, redactVars>>

\* AfterWriteError for a handler that lets the exception through
AfterWriteErrorRaises == "raised"

\* how a log call whose write failed ends: StreamHandler.emit catches the
\* exception and calls handleError, which reports it on stderr and returns
AfterWriteError == "returned"

\* line 78 when stream.write raises (disk full): nothing is appended
WriteFail(t) ==
    /\ pc[t] = "write"
    /\ wfail' = [wfail EXCEPT ![t] = TRUE]
    /\ IF AfterWriteError = "raised"
       THEN /\ pc' = [pc EXCEPT ![t] = "idle"]
            /\ lock' = [lock EXCEPT ![cur[t]] = 0]
            /\ result' = [result EXCEPT ![t] = "raised"]
       ELSE /\ pc' = [pc EXCEPT ![t] = "release"]
            /\ UNCHANGED <<lock, result>>
    /\ UNCHANGED <<today, dateSeq, cls_last_entry, built, level,
                   file_logging, ext, builtAt, obs, last_entry,
                   baseFilename, stream, handles, exists, content, console,
                   wlog, rotations, issued, cur, rid, chk, old, rot, seen,
                   prev, ref, closedWrite, redactVars>>

\* Handler.handle releases the lock and the log call returns; what the call
\* read and held goes out of scope
Release(t) ==
    /\ pc[t] = "release"
    /\ lock' = [lock EXCEPT ![cur[t]] = 0]
    /\ pc' = [pc EXCEPT ![t] = "idle"]
    /\ result' = [result EXCEPT ![t] = "returned"]
    /\ chk' = [chk EXCEPT ![t] = 0]
    /\ old' = [old EXCEPT ![t] = 0]
    /\ rot' = [rot EXCEPT ![t] = FALSE]
    /\ seen' = [seen EXCEPT ![t] = {}]
    /\ prev' = [prev EXCEPT ![t] = 0]
    /\ ref' = [ref EXCEPT ![t] = 0]
    /\ UNCHANGED <<today, dateSeq, cls_last_entry, built, level, file_logging,
                   ext, builtAt, obs, last_entry, baseFilename, stream,
                   handles, exists, content, console, wlog, rotations, issued,
                   cur, rid, wfail, closedWrite, redactVars>>

(* --------------------------- specifications --------------------------- *)

\* one Logger, of any level, with or without file logging, and one thread
Next ==
    \/ \E d \in Days : Tick(d)
    \/ \E lv \in LoggerLevels, fl \in BOOLEAN : NewLogger(1, lv, fl)
    \/ \E s \in Severities : Call(1, 1, s)
    \/ Console(1)
    \/ Acquire(1)
    \/ Check(1)
    \/ SetDate(1)
    \/ Close(1)
    \/ SetName(1)
    \/ Open(1)
    \/ Emit(1)
    \/ Write(1)
    \/ Release(1)

Spec == Init /\ [][Next]_vars

\* one Logger with file logging, shared by the threads
NextMT ==
    \/ \E d \in Days : Tick(d)
    \/ NewLogger(1, DEBUG, TRUE)
    \/ \E t \in Threads : Call(t, 1, INFO)
    \/ \E t \in Threads : Console(t)
    \/ \E t \in Threads : Acquire(t)
    \/ \E t \in Threads : Check(t)
    \/ \E t \in Threads : SetDate(t)
    \/ \E t \in Threads : Close(t)
    \/ \E t \in Threads : SetName(t)
    \/ \E t \in Threads : Open(t)
    \/ \E t \in Threads : Emit(t)
    \/ \E t \in Threads : Write(t)
    \/ \E t \in Threads : Release(t)

SpecMT == Init /\ [][NextMT]_vars

\* one Logger and one thread, with an I/O layer that may fail
NextIO ==
    \/ \E d \in Days : Tick(d)
    \/ \E lv \in LoggerLevels, fl \in BOOLEAN : NewLogger(1, lv, fl)
    \/ \E s \in Severities : Call(1, 1, s)
    \/ Console(1)
    \/ Acquire(1)
    \/ Check(1)
    \/ SetDate(1)
    \/ Close(1)
    \/ SetName(1)
    \/ Open(1)
    \/ OpenFail(1)
    \/ Emit(1)
    \/ Write(1)
    \/ WriteFail(1)
    \/ Release(1)

SpecIO == Init /\ [][NextIO]_vars

\* two Loggers, each with its own FileHandler, used by one thread
NextTwo ==
    \/ \E d \in Days : Tick(d)
    \/ \E l \in Loggers, lv \in LoggerLevels, fl \in BOOLEAN :
         NewLogger(l, lv, fl)
    \/ \E l \in Loggers, s \in Severities : Call(1, l, s)
    \/ Console(1)
    \/ Acquire(1)
    \/ Check(1)
    \/ SetDate(1)
    \/ Close(1)
    \/ SetName(1)
    \/ Open(1)
    \/ Emit(1)
    \/ Write(1)
    \/ Release(1)

SpecTwo == Init /\ [][NextTwo]_vars

(* ------------------- the filter on one record ------------------------- *)

\* a record with any pathname, made in a process with any working directory
InitRedact ==
    /\ LogInit
    /\ today = 1
    /\ cwd \in Roots
    /\ pathname \in StrsUpTo(MaxPathLen)
    /\ passes = 0
    /\ once = <<>>

\* line 114: the console handler's RelativePathFilter, lines 27-30
FilterConsole ==
    /\ passes = 0
    /\ pathname' = Redact(pathname, cwd)
    /\ once' = pathname'
    /\ passes' = 1
    /\ UNCHANGED <<cwd, logVars>>

\* line 119: the file handler's RelativePathFilter, on the same record
FilterFile ==
    /\ passes = 1
    /\ pathname' = Redact(pathname, cwd)
    /\ passes' = 2
    /\ UNCHANGED <<cwd, once, logVars>>

NextRedact ==
    \/ FilterConsole
    \/ FilterFile

SpecRedact == InitRedact /\ [][NextRedact]_vars

(* ------------------------------ claims -------------------------------- *)

\* how many times x occurs in the sequence q
Count(q, x) == Cardinality({k \in 1..Len(q) : q[k] = x})

\* how many lines of the files of the folder are record i
FileLines(i) ==
    Cardinality({pk \in Paths \X (1..MaxCalls) :
                   pk[2] <= Len(content[pk[1]]) /\ content[pk[1]][pk[2]] = i})

\* the log call that made record i is over
Done(i) == \A t \in Threads : pc[t] = "idle" \/ rid[t] # i

\* no thread is inside a log call on logger l
Quiet(l) == \A t \in Threads : pc[t] = "idle" \/ cur[t] # l

\* the steps a thread takes while it holds the handler's lock
Locked == {"check", "release"} \cup InEmit

\* the ids of the entries of l's write log that went to file p, in order
WrittenTo(l, p) ==
    LET InFile(e) == e.path = p
        es == SelectSeq(wlog[l], InFile)
    IN  [k \in 1..Len(es) |-> es[k].id]

\* C1: a finished log call at a severity at or above the logger's level
\* has written exactly one line to the console and, if and only if the
\* logger was made with file logging, exactly one line to a file; a call
\* below the level has written nothing anywhere; a logger made without
\* file logging has no stream, has opened no file and created none.
C1_OneLinePerSink ==
    /\ \A i \in 1..Len(issued) :
         LET l == issued[i].lg
             on == issued[i].sev >= level[l]
         IN  /\ Done(i) /\ on =>
                  /\ Count(console[l], i) = 1
                  /\ FileLines(i) = IF file_logging[l] THEN 1 ELSE 0
             /\ ~on => Count(console[l], i) = 0 /\ FileLines(i) = 0
    /\ \A l \in Loggers :
         built[l] /\ ~file_logging[l] =>
             /\ stream[l] = 0
             /\ \A h \in 1..Len(handles) : handles[h].owner # l
             /\ \A q \in exists : q[2] # Name(l)
             /\ wlog[l] = <<>>

\* a call exactly at the level went to the console and the file, and a
\* call below the level is over
C1_Witness ==
    \E i, j \in 1..Len(issued) :
        /\ Done(i) /\ Done(j)
        /\ file_logging[issued[i].lg]
        /\ issued[i].sev = level[issued[i].lg]
        /\ Count(console[issued[i].lg], i) = 1 /\ FileLines(i) = 1
        /\ issued[j].sev < level[issued[j].lg]

\* the case C2 is about: sink l was constructed on D1, the date has changed
\* once since, to D2, a write began on D1, a write began on D2, and no
\* write is in progress
C2_Case(l) ==
    /\ built[l] /\ file_logging[l] /\ Quiet(l)
    /\ Len(dateSeq) = builtAt[l] + 1
    /\ \E k \in 1..Len(wlog[l]) : dateSeq[builtAt[l]] \in wlog[l][k].days
    /\ \E k \in 1..Len(wlog[l]) : wlog[l][k].days = {today}

\* C2: after writes on D1 and then on D2 the sink has exactly the two
\* files of D1 and D2, every record is in the file of a date that was
\* current while it was written, each file holds its records in the order
\* written, every record of a finished call is in the files exactly once,
\* and the recorded date and the open file are D2's.
C2_RotationCorrect ==
    \A l \in Loggers :
        C2_Case(l) =>
            LET D1 == dateSeq[builtAt[l]]
                D2 == today
            IN  /\ {q \in exists : q[2] = ext[l]} = {<<D1, ext[l]>>, <<D2, ext[l]>>}
                /\ \A k \in 1..Len(wlog[l]) :
                       wlog[l][k].path[1] \in wlog[l][k].days
                /\ \A d \in {D1, D2} :
                       content[<<d, ext[l]>>] = WrittenTo(l, <<d, ext[l]>>)
                /\ \A i \in 1..Len(issued) :
                       issued[i].lg = l /\ issued[i].sev >= level[l]
                           => FileLines(i) = 1
                /\ LastEntry(l) = D2
                /\ stream[l] # 0
                /\ handles[stream[l]].path = <<D2, ext[l]>>

\* one record in each of the two files, after one rotation or more
C2_Witness ==
    \E l \in Loggers :
        /\ C2_Case(l)
        /\ rotations[l] >= 1
        /\ Len(content[<<dateSeq[builtAt[l]], ext[l]>>]) = 1
        /\ Len(content[<<today, ext[l]>>]) = 1

\* C3: once a write to a file sink is over, the date in the path of the
\* sink's open file is the sink's recorded date.
C3_PathDateIsRecordedDate ==
    \A l \in Loggers :
        built[l] /\ file_logging[l] /\ Quiet(l) /\ wlog[l] # <<>> =>
            /\ stream[l] # 0
            /\ handles[stream[l]].path[1] = LastEntry(l)

\* C4: the steps from line 73 to the write run under the sink's lock, one
\* thread at a time; no thread writes to a closed file object; a sink
\* rotates at most once per change of the date; and when the calls are
\* over each of them has exactly one whole line in the files.
C4_CriticalSection ==
    /\ \A l \in Loggers :
         Cardinality({t \in Threads : cur[t] = l /\ pc[t] \in Locked}) <= 1
    /\ \A t \in Threads : pc[t] \in Locked => lock[cur[t]] = t
    /\ ~closedWrite
    /\ \A l \in Loggers : rotations[l] <= Len(dateSeq) - 1
    /\ \A l \in Loggers :
         file_logging[l] /\ Quiet(l) =>
             \A i \in 1..Len(issued) :
                 issued[i].lg = l /\ issued[i].sev >= level[l]
                     => /\ FileLines(i) = 1
                        /\ Cardinality({k \in 1..Len(wlog[l]) :
                                          wlog[l][k].id = i}) = 1

\* one thread is in the middle of a rotation while the other waits for
\* the lock of the same sink
C4_Witness ==
    \E t, u \in Threads :
        /\ t # u /\ cur[t] = cur[u]
        /\ pc[t] \in {"close", "setname", "open"}
        /\ pc[u] = "acquire"

\* C5: the first write of a sink, on the day the sink was constructed,
\* does not rotate.
C5_NoRotationOnFirstSameDayWrite ==
    \A t \in Threads :
        (/\ pc[t] \in InEmit
         /\ wlog[cur[t]] = <<>>
         /\ chk[t] = dateSeq[builtAt[cur[t]]])
        => ~rot[t]

C7_RedactIdempotent == passes = 2 => pathname = once

\* C8 as stated: while a rotation has not yet opened the new file, the
\* recorded date is still the one line 73 read.
C8_DateChangesAfterOpen ==
    \A t \in Threads :
        pc[t] \in {"close", "setname", "open"} => LastEntry(cur[t]) = old[t]

\* C8 as amended: a rotation (c) sets the recorded date to today(), then
\* (a) closes the current stream, then (b) opens the file named after the
\* recorded date, then (d) appends the line to the newly opened stream.
C8_DateThenCloseThenOpen ==
    \A t \in Threads :
        LET l == cur[t] IN
        /\ pc[t] = "setdate" =>
               /\ LastEntry(l) = old[t]
               /\ stream[l] # 0 => handles[stream[l]].open
        /\ pc[t] = "close" =>
               /\ last_entry[l] \in seen[t]
               /\ stream[l] = prev[t]
               /\ prev[t] # 0 => handles[prev[t]].open
        /\ pc[t] \in {"setname", "open"} =>
               /\ last_entry[l] \in seen[t]
               /\ stream[l] = 0
               /\ OpenHandles(l) = {}
        /\ pc[t] = "open" => baseFilename[l] = <<last_entry[l], ext[l]>>
        /\ rot[t] /\ pc[t] \in {"emit", "write"} =>
               /\ stream[l] # 0
               /\ handles[stream[l]].open
               /\ handles[stream[l]].path = <<last_entry[l], ext[l]>>
               /\ FileLines(rid[t]) = 0
        /\ rot[t] /\ pc[t] = "release" =>
               /\ wlog[l] # <<>>
               /\ wlog[l][Len(wlog[l])].id = rid[t]
               /\ wlog[l][Len(wlog[l])].path = <<last_entry[l], ext[l]>>

\* a rotation has changed the recorded date and not yet closed the stream
C8_Witness ==
    \E t \in Threads :
        /\ pc[t] = "close"
        /\ LastEntry(cur[t]) # old[t]
        /\ stream[cur[t]] # 0
        /\ handles[stream[cur[t]]].open

\* C9: the only file object of a sink that can be open is its stream, so
\* at most one is; and the stream a rotation started from is closed from
\* line 75 on, also when the open of line 77 has failed.
C9_OneOpenHandle ==
    /\ \A l \in Loggers :
         /\ OpenHandles(l) \subseteq {stream[l]}
         /\ Cardinality(OpenHandles(l)) <= 1
    /\ \A t \in Threads :
         (pc[t] \in {"setname", "open"} \/ result[t] = "raised") /\ prev[t] # 0
             => ~handles[prev[t]].open

\* the open of a rotation has failed: the old stream is closed, none is open
C9_Witness ==
    \E t \in Threads :
        /\ result[t] = "raised"
        /\ prev[t] # 0
        /\ ~handles[prev[t]].open
        /\ OpenHandles(cur[t]) = {}

\* C10: with two sinks alive, a step of a log call on sink l leaves the
\* recorded date, the file name and the file of the other sink k as they
\* are; and after k has written, sink l still rotates at line 73 of its
\* own next write when the date has changed since l last read it (at its
\* construction or at its last write).
C10_SinksIndependent ==
    [][\A t \in Threads :
         \A k \in Loggers \ {cur[t]} :
             LET l == cur[t] IN
             pc[t] # "idle" /\ file_logging[l] /\ built[k] /\ file_logging[k] =>
                 /\ LastEntry(k)' = LastEntry(k)
                 /\ baseFilename'[k] = baseFilename[k]
                 /\ content'[baseFilename[k]] = content[baseFilename[k]]
                 /\ (/\ pc[t] = "check"
                     /\ pc'[t] # "check"
                     /\ wlog[k] # <<>>
                     /\ obs[l] # today)
                        => pc'[t] = "setdate"]_vars

====
